---------------------------- MODULE Spec2Model ----------------------------
(***************************************************************************)
(* Model of streamlit_app_Version4.py: the Streamlit script of the mental  *)
(* health assistant.  One session is modelled: st.session_state.messages,  *)
(* the script runs that the front end starts (a plain rerun, the "Clear    *)
(* Conversation" button, a submitted chat input), the crisis keyword       *)
(* detector and the call of the completion provider.                       *)
(*                                                                         *)
(* Texts are TLA+ strings; Len, SubSeq, Head, Tail and \o act on them      *)
(* character by character.                                                 *)
(***************************************************************************)
EXTENDS Integers, Sequences, FiniteSets, TLC

VARIABLES
    app_config,       \* config["app"]: crisis_hotline, crisis_text, warning_message
    api_key,          \* binding of the free name api_key read at line 142
    environ,          \* os.environ entries written by line 143
    messages_set,     \* "messages" in st.session_state
    messages,         \* st.session_state.messages
    pc,               \* position of the script run ("idle": no run in progress)
    button,           \* value st.button("Clear Conversation") returns in this run
    prompt,           \* value st.chat_input(...) returns in this run ("" is None)
    ai_response,      \* local ai_response of main
    rendered,         \* widgets the last finished run put on the page
    displayed,        \* messages drawn by the loop of lines 157-159
    run_status,       \* how the last run ended: "none", "ok", "rerun", "exception"
    provider_calls,   \* calls of client.chat.completions.create since the last user action
    provider_window,  \* messages argument of the last provider call
    provider_error,   \* str(e) of the exception the last provider call raised
    init_system,      \* the system message initialize_session_state created
    before,           \* messages before the last operation that wrote it
    last_op,          \* last operation on messages: init, clear, turn
    last_turn,        \* outcome of the last user action of the session
    nturns,           \* user turns submitted so far in the session
    text,             \* argument of a stand-alone contains_crisis_keywords call
    detect_result     \* its result: "pending", "true", "false"

vars == <<app_config, api_key, environ, messages_set, messages, pc, button,
          prompt, ai_response, rendered, displayed, run_status,
          provider_calls, provider_window, provider_error, init_system,
          before, last_op, last_turn, nturns, text, detect_result>>

session_vars == <<app_config, api_key, environ, messages_set, messages, pc,
                  button, prompt, ai_response, rendered, displayed,
                  run_status, provider_calls, provider_window,
                  provider_error, init_system, before, last_op, last_turn,
                  nturns>>

detect_vars == <<text, detect_result>>

---------------------------------------------------------------------------
(* Bounds *)

\* User turns submitted in one session.
MaxTurns == 4

\* Characters put before and after a core text in the detector's inputs.
MaxPad == 1

---------------------------------------------------------------------------
(* Text helpers: Python's str operations *)

Max(a, b) == IF a >= b THEN a ELSE b

\* One character of str.lower(): the ASCII capitals map to their small
\* letters, every other character of the modelled alphabet is kept.
LowerChar(c) ==
    CASE c = "A" -> "a" [] c = "B" -> "b" [] c = "C" -> "c" [] c = "D" -> "d"
      [] c = "E" -> "e" [] c = "F" -> "f" [] c = "G" -> "g" [] c = "H" -> "h"
      [] c = "I" -> "i" [] c = "J" -> "j" [] c = "K" -> "k" [] c = "L" -> "l"
      [] c = "M" -> "m" [] c = "N" -> "n" [] c = "O" -> "o" [] c = "P" -> "p"
      [] c = "Q" -> "q" [] c = "R" -> "r" [] c = "S" -> "s" [] c = "T" -> "t"
      [] c = "U" -> "u" [] c = "V" -> "v" [] c = "W" -> "w" [] c = "X" -> "x"
      [] c = "Y" -> "y" [] c = "Z" -> "z"
      [] OTHER -> c

\* text.lower()
RECURSIVE Lower(_)
Lower(s) == IF Len(s) = 0 THEN "" ELSE LowerChar(Head(s)) \o Lower(Tail(s))

\* Python's  sub in s  on strings.
StrIn(sub, s) ==
    \E i \in 1..(Len(s) - Len(sub) + 1) : SubSeq(s, i, i + Len(sub) - 1) = sub

---------------------------------------------------------------------------
(* contains_crisis_keywords, lines 97-104 *)

crisis_keywords ==
    << "kill myself", "suicide", "end it all", "want to die",
       "harm myself", "self harm", "hurt myself", "not want to live" >>

\* The mutant of the detector that matches on the text as typed.
contains_crisis_keywords_NoLower(t) ==
    \E n \in 1..Len(crisis_keywords) : StrIn(crisis_keywords[n], t)

contains_crisis_keywords(t) ==
    LET text_lower == Lower(t)
    IN  \E n \in 1..Len(crisis_keywords) : StrIn(crisis_keywords[n], text_lower)

---------------------------------------------------------------------------
(* Configuration: config.toml is read at line 8 and is not part of the     *)
(* source; its values are inputs of the model.                             *)

Hotlines == {"988", "1-800-273-8255"}

CrisisTexts == {"Text HOME to 741741", "741741"}

Warnings == {"This is not medical advice."}

AppConfigs ==
    [crisis_hotline : Hotlines, crisis_text : CrisisTexts,
     warning_message : Warnings]

---------------------------------------------------------------------------
(* Messages and the texts the script builds *)

Msg(role, content) == [role |-> role, content |-> content]

NoMsg == Msg("", "")

\* The f-string of lines 52-71.
system_prompt(cfg) ==
    "\n"
    \o "        You are a helpful, empathetic mental health information assistant. \n"
    \o "        \n"
    \o "        YOUR ROLE:\n"
    \o "        - Provide general psychoeducation about mental health topics\n"
    \o "        - Offer supportive, validating responses\n"
    \o "        - Suggest evidence-based coping strategies\n"
    \o "        - Help users understand common mental health concepts\n"
    \o "        \n"
    \o "        CRITICAL SAFETY RULES:\n"
    \o "        - You are NOT a licensed therapist or crisis counselor\n"
    \o "        - You cannot provide diagnoses or treatment plans\n"
    \o "        - If a user mentions self-harm, suicide, or immediate danger, you MUST:\n"
    \o "          1. Acknowledge their pain\n"
    \o "          2. Provide the crisis hotline: " \o cfg.crisis_hotline \o "\n"
    \o "          3. Encourage them to contact emergency services if in immediate danger\n"
    \o "          4. Keep the response brief and focused on safety\n"
    \o "        \n"
    \o "        Always include this disclaimer in your first response: \""
    \o cfg.warning_message \o "\"\n"
    \o "        "

\* The f-string of line 75.
greeting(cfg) ==
    "Hello! I'm here to provide general mental health information and support. "
    \o cfg.warning_message \o " How can I help you today?"

\* The literal of line 148.
cleared_greeting == "Conversation cleared. How can I help you today?"

\* The mutant of the crisis template that spells the hotline out.
handle_crisis_response_Literal(cfg) ==
    "\n"
    \o "    I hear that you're in tremendous pain, and I'm deeply concerned about your safety.\n"
    \o "\n"
    \o "    **Please reach out for immediate help:**\n"
    \o "    - **Crisis Hotline:** " \o "988" \o "\n"
    \o "    - **Crisis Text Line:** " \o cfg.crisis_text \o "\n"
    \o "    - **Emergency Services:** 911\n"
    \o "\n"
    \o "    You don't have to go through this alone. There are people who want to help you right now.\n"
    \o "    "

\* handle_crisis_response, lines 106-117.
handle_crisis_response(cfg) ==
    "\n"
    \o "    I hear that you're in tremendous pain, and I'm deeply concerned about your safety.\n"
    \o "\n"
    \o "    **Please reach out for immediate help:**\n"
    \o "    - **Crisis Hotline:** " \o cfg.crisis_hotline \o "\n"
    \o "    - **Crisis Text Line:** " \o cfg.crisis_text \o "\n"
    \o "    - **Emergency Services:** 911\n"
    \o "\n"
    \o "    You don't have to go through this alone. There are people who want to help you right now.\n"
    \o "    "

\* Python's s[-n:] on a list, n > 0: the last min(n, len(s)) elements.
LastN(s, n) ==
    LET start == Max(0, Len(s) - n)
    IN  [i \in 1..(Len(s) - start) |-> s[start + i]]

\* The slice of line 173 is [-6:].
WindowSize == 6

\* The mutant of the slice that is one message short.
recent_messages_Short(msgs) == LastN(msgs, WindowSize - 1)

\* recent_messages of line 173.
recent_messages(msgs) == LastN(msgs, WindowSize)

---------------------------------------------------------------------------
(* The completion provider, an external service: what the try block of    *)
(* lines 83-92 can do.                                                     *)

Replies == {"That sounds hard. Slow breathing can help."}

\* str(e) when openai.OpenAI(...) of line 83 raises (no API key in the
\* environment): the provider is not called.
ClientErrors == {"The api_key client option must be set."}

\* str(e) when client.chat.completions.create of lines 85-90 raises, or
\* when reading its response at line 92 does.
CallErrors == {"Connection error."}

ProviderErrors == ClientErrors \cup CallErrors

ProviderOutcomes ==
    [ok : {TRUE}, called : {TRUE}, value : Replies]
      \cup [ok : {FALSE}, called : {TRUE}, value : CallErrors]
      \cup [ok : {FALSE}, called : {FALSE}, value : ClientErrors]

\* The literal part of the f-string of line 95.
FallbackMarker ==
    "I'm having trouble responding right now. Please try again later. Error: "

\* The mutant of get_ai_response without the except clause: the exception
\* is not turned into a text (the empty text stands for no reply).
get_ai_response_NoCatch(outcome) ==
    IF outcome.ok THEN outcome.value ELSE ""

\* get_ai_response, lines 78-95, given what the provider call did:
\* the completion's content, or the fallback text of the except clause.
get_ai_response(outcome) ==
    IF outcome.ok THEN outcome.value ELSE FallbackMarker \o outcome.value

---------------------------------------------------------------------------
(* The front end: inputs of a session *)

\* Texts a user submits in the session.
Prompts == {"I want to KILL MYSELF", "I had a rough day"}

\* The free name api_key of line 142.  No statement of the file binds it,
\* so in the file as it stands the lookup finds nothing (bound = FALSE).
\* The namespace the script is executed in is kept open to cover lines
\* 143-182 as well: the name bound to a falsy or to a truthy string.
ApiKeyBindings ==
    { [bound |-> FALSE, value |-> ""],
      [bound |-> TRUE, value |-> ""],
      [bound |-> TRUE, value |-> "sk-user"] }

\* The key of the os.environ assignment of line 143 (a literal credential
\* in the source, not repeated here).
EnvKey == "sk-proj-<literal of line 143>"

InitSession ==
    /\ app_config \in AppConfigs
    /\ api_key \in ApiKeyBindings
    /\ environ = {}
    /\ messages_set = FALSE
    /\ messages = <<>>
    /\ pc = "idle"
    /\ button = FALSE
    /\ prompt = ""
    /\ ai_response = ""
    /\ rendered = {}
    /\ displayed = <<>>
    /\ run_status = "none"
    /\ provider_calls = 0
    /\ provider_window = <<>>
    /\ provider_error = ""
    /\ init_system = NoMsg
    /\ before = <<>>
    /\ last_op = "none"
    /\ last_turn = "none"
    /\ nturns = 0

Init ==
    /\ InitSession
    /\ text = ""
    /\ detect_result = "pending"

\* The front end starts a run of the script with the widget values given:
\* the first load of the page, or a rerun without a widget event.
Rerun ==
    /\ pc = "idle"
    /\ pc' = "start"
    /\ button' = FALSE
    /\ prompt' = ""
    /\ provider_calls' = 0
    /\ last_turn' = "none"
    /\ run_status' = "none"
    /\ UNCHANGED <<app_config, api_key, environ, messages_set, messages,
                   ai_response, rendered, displayed, provider_window,
                   provider_error, init_system, before, last_op, nturns>>
    /\ UNCHANGED detect_vars

\* The user presses "Clear Conversation": the button of line 145 is on the
\* page only if the last run reached it.
PressClear ==
    /\ pc = "idle"
    /\ "button" \in rendered
    /\ pc' = "start"
    /\ button' = TRUE
    /\ prompt' = ""
    /\ provider_calls' = 0
    /\ last_turn' = "none"
    /\ run_status' = "none"
    /\ UNCHANGED <<app_config, api_key, environ, messages_set, messages,
                   ai_response, rendered, displayed, provider_window,
                   provider_error, init_system, before, last_op, nturns>>
    /\ UNCHANGED detect_vars

\* The user submits a text in the chat input of line 162.
SubmitPrompt(p) ==
    /\ pc = "idle"
    /\ "chat_input" \in rendered
    /\ nturns < MaxTurns
    /\ pc' = "start"
    /\ button' = FALSE
    /\ prompt' = p
    /\ nturns' = nturns + 1
    /\ provider_calls' = 0
    /\ last_turn' = "none"
    /\ run_status' = "none"
    /\ UNCHANGED <<app_config, api_key, environ, messages_set, messages,
                   ai_response, rendered, displayed, provider_window,
                   provider_error, init_system, before, last_op>>
    /\ UNCHANGED detect_vars

---------------------------------------------------------------------------
(* The script: one run of main(), step by step *)

\* The mutant of initialize_session_state without the test of line 51:
\* every run writes the two initial messages.
initialize_session_state_Always ==
    /\ pc = "start"
    /\ before' = messages
    /\ messages_set' = TRUE
    /\ messages' = << Msg("system", system_prompt(app_config)),
                      Msg("assistant", greeting(app_config)) >>
    /\ init_system' = Msg("system", system_prompt(app_config))
    /\ last_op' = IF messages_set THEN "init_kept" ELSE "init_created"
    /\ pc' = "sidebar"
    /\ UNCHANGED <<app_config, api_key, environ, button, prompt, ai_response,
                   rendered, displayed, run_status, provider_calls,
                   provider_window, provider_error, last_turn, nturns>>
    /\ UNCHANGED detect_vars

\* initialize_session_state, lines 49-76, called at line 121.
initialize_session_state ==
    /\ pc = "start"
    /\ before' = messages
    /\ IF ~messages_set
         THEN /\ messages_set' = TRUE
              /\ messages' = << Msg("system", system_prompt(app_config)),
                                Msg("assistant", greeting(app_config)) >>
              /\ init_system' = Msg("system", system_prompt(app_config))
              /\ last_op' = "init_created"
         ELSE /\ UNCHANGED <<messages_set, messages, init_system>>
              /\ last_op' = "init_kept"
    /\ pc' = "sidebar"
    /\ UNCHANGED <<app_config, api_key, environ, button, prompt, ai_response,
                   rendered, displayed, run_status, provider_calls,
                   provider_window, provider_error, last_turn, nturns>>
    /\ UNCHANGED detect_vars

\* Lines 124-142 with api_key unbound: the lookup of line 142 raises
\* NameError, nothing in main catches it, and the run ends there.  The
\* widgets of lines 145 and 162 are not reached, so the page of that run
\* offers neither.
SidebarNameError ==
    /\ pc = "sidebar"
    /\ ~api_key.bound
    /\ pc' = "idle"
    /\ run_status' = "exception"
    /\ rendered' = {}
    /\ button' = FALSE
    /\ prompt' = ""
    /\ UNCHANGED <<app_config, api_key, environ, messages_set, messages,
                   ai_response, displayed, provider_calls, provider_window,
                   provider_error, init_system, before, last_op, last_turn,
                   nturns>>
    /\ UNCHANGED detect_vars

\* Lines 124-143 with api_key bound: a truthy value is stored in
\* os.environ under the key of line 143.
SidebarApiKey ==
    /\ pc = "sidebar"
    /\ api_key.bound
    /\ environ' = IF api_key.value # ""
                    THEN {e \in environ : e[1] # EnvKey}
                           \cup {<<EnvKey, api_key.value>>}
                    ELSE environ
    /\ pc' = "button"
    /\ UNCHANGED <<app_config, api_key, messages_set, messages, button,
                   prompt, ai_response, rendered, displayed, run_status,
                   provider_calls, provider_window, provider_error,
                   init_system, before, last_op, last_turn, nturns>>
    /\ UNCHANGED detect_vars

\* The mutant of the clear that keeps the greeting instead of the system
\* message (index 1 for index 0).
ClearConversation_WrongIndex ==
    /\ pc = "button"
    /\ button
    /\ before' = messages
    /\ messages' = << messages[2], Msg("assistant", cleared_greeting) >>
    /\ last_op' = "clear"
    /\ last_turn' = "clear"
    /\ pc' = "start"
    /\ button' = FALSE
    /\ run_status' = "rerun"
    /\ UNCHANGED <<app_config, api_key, environ, messages_set, prompt,
                   ai_response, rendered, displayed, provider_calls,
                   provider_window, provider_error, init_system, nturns>>
    /\ UNCHANGED detect_vars

\* The mutant of the clear that keeps the old turns before the greeting.
ClearConversation_Keep ==
    /\ pc = "button"
    /\ button
    /\ before' = messages
    /\ messages' = Append(messages, Msg("assistant", cleared_greeting))
    /\ last_op' = "clear"
    /\ last_turn' = "clear"
    /\ pc' = "start"
    /\ button' = FALSE
    /\ run_status' = "rerun"
    /\ UNCHANGED <<app_config, api_key, environ, messages_set, prompt,
                   ai_response, rendered, displayed, provider_calls,
                   provider_window, provider_error, init_system, nturns>>
    /\ UNCHANGED detect_vars

\* Lines 145-150, the button pressed: messages becomes its element 0 and a
\* fresh greeting, and st.rerun() ends the run and starts the next one,
\* in which the button reads False.
ClearConversation ==
    /\ pc = "button"
    /\ button
    /\ before' = messages
    /\ messages' = << messages[1], Msg("assistant", cleared_greeting) >>
    /\ last_op' = "clear"
    /\ last_turn' = "clear"
    /\ pc' = "start"
    /\ button' = FALSE
    /\ run_status' = "rerun"
    /\ UNCHANGED <<app_config, api_key, environ, messages_set, prompt,
                   ai_response, rendered, displayed, provider_calls,
                   provider_window, provider_error, init_system, nturns>>
    /\ UNCHANGED detect_vars

\* Line 145 with the button not pressed, then lines 153-159: every message
\* but the first is drawn.
DisplayMessages ==
    /\ pc = "button"
    /\ ~button
    /\ displayed' = SubSeq(messages, 2, Len(messages))
    /\ pc' = "chat_input"
    /\ UNCHANGED <<app_config, api_key, environ, messages_set, messages,
                   button, prompt, ai_response, rendered, run_status,
                   provider_calls, provider_window, provider_error,
                   init_system, before, last_op, last_turn, nturns>>
    /\ UNCHANGED detect_vars

\* Line 162 with nothing submitted: main returns, the page shows the
\* button and the chat input.
ChatInputEmpty ==
    /\ pc = "chat_input"
    /\ prompt = ""
    /\ pc' = "idle"
    /\ run_status' = "ok"
    /\ rendered' = {"button", "chat_input"}
    /\ UNCHANGED <<app_config, api_key, environ, messages_set, messages,
                   button, prompt, ai_response, displayed, provider_calls,
                   provider_window, provider_error, init_system, before,
                   last_op, last_turn, nturns>>
    /\ UNCHANGED detect_vars

\* Lines 162-166 with a submitted text: the user message is appended.
AppendUser ==
    /\ pc = "chat_input"
    /\ prompt # ""
    /\ before' = messages
    /\ messages' = Append(messages, Msg("user", prompt))
    /\ pc' = "respond"
    /\ UNCHANGED <<app_config, api_key, environ, messages_set, button,
                   prompt, ai_response, rendered, displayed, run_status,
                   provider_calls, provider_window, provider_error,
                   init_system, last_op, last_turn, nturns>>
    /\ UNCHANGED detect_vars

\* Lines 169-170: the crisis branch.
CrisisResponse ==
    /\ pc = "respond"
    /\ contains_crisis_keywords(prompt)
    /\ ai_response' = handle_crisis_response(app_config)
    /\ last_turn' = "crisis"
    /\ pc' = "append"
    /\ UNCHANGED <<app_config, api_key, environ, messages_set, messages,
                   button, prompt, rendered, displayed, run_status,
                   provider_calls, provider_window, provider_error,
                   init_system, before, last_op, nturns>>
    /\ UNCHANGED detect_vars

\* Lines 173-174 and 78-95 for one outcome of the try block: unless the
\* client could not be built, the last six messages go to the provider,
\* once; its text or the fallback text becomes ai_response.
ProviderStep(outcome) ==
    /\ provider_window' = IF outcome.called THEN recent_messages(messages)
                                             ELSE provider_window
    /\ provider_calls' = provider_calls + (IF outcome.called THEN 1 ELSE 0)
    /\ provider_error' = IF outcome.ok THEN "" ELSE outcome.value
    /\ ai_response' = get_ai_response(outcome)
    /\ last_turn' = IF outcome.ok THEN "reply" ELSE "fallback"
    /\ pc' = "append"
    /\ UNCHANGED <<app_config, api_key, environ, messages_set, messages,
                   button, prompt, rendered, displayed, run_status,
                   init_system, before, last_op, nturns>>
    /\ UNCHANGED detect_vars

\* The mutant of the else branch that is taken whatever the detector said.
GetAiResponse_Unguarded ==
    /\ pc = "respond"
    /\ \E outcome \in ProviderOutcomes : ProviderStep(outcome)

\* Lines 171-174: the else branch.
GetAiResponse ==
    /\ pc = "respond"
    /\ ~contains_crisis_keywords(prompt)
    /\ \E outcome \in ProviderOutcomes : ProviderStep(outcome)

\* Lines 177-182: the assistant message is appended and st.rerun() ends
\* the run and starts the next one, in which the chat input reads None.
AppendAssistant ==
    /\ pc = "append"
    /\ messages' = Append(messages, Msg("assistant", ai_response))
    /\ last_op' = "turn"
    /\ pc' = "start"
    /\ prompt' = ""
    /\ ai_response' = ""
    /\ run_status' = "rerun"
    /\ UNCHANGED <<app_config, api_key, environ, messages_set, button,
                   rendered, displayed, provider_calls, provider_window,
                   provider_error, init_system, before, last_turn, nturns>>
    /\ UNCHANGED detect_vars

Next ==
    \/ Rerun
    \/ PressClear
    \/ \E p \in Prompts : SubmitPrompt(p)
    \/ initialize_session_state
    \/ SidebarNameError
    \/ SidebarApiKey
    \/ ClearConversation
    \/ DisplayMessages
    \/ ChatInputEmpty
    \/ AppendUser
    \/ CrisisResponse
    \/ GetAiResponse
    \/ AppendAssistant

Spec == Init /\ [][Next]_vars

---------------------------------------------------------------------------
(* The detector on its own: contains_crisis_keywords applied to one text *)

\* Characters put around a core: a letter, a blank, a capital.
PadChars == {"x", " ", "S"}

RECURSIVE PadsOfLen(_)
PadsOfLen(n) ==
    IF n = 0 THEN {""}
    ELSE {a \o c : a \in PadsOfLen(n - 1), c \in PadChars}

Pads == UNION {PadsOfLen(n) : n \in 0..MaxPad}

\* The phrases as listed, in capitals, in mixed case, and texts that miss
\* each of them by a character.
Cores ==
    { "kill myself", "suicide", "end it all", "want to die",
      "harm myself", "self harm", "hurt myself", "not want to live",
      "KILL MYSELF", "SUICIDE", "END IT ALL", "WANT TO DIE",
      "HARM MYSELF", "SELF HARM", "HURT MYSELF", "NOT WANT TO LIVE",
      "Kill Myself", "sUiCiDe", "Not Want To Live",
      "", "kill my self", "suicid", "end it al", "want to live",
      "harm mysel", "self-harm", "hurt  myself", "not want to liv",
      "I had a rough day" }

Texts == {a \o c \o b : a \in Pads, c \in Cores, b \in Pads}

InitDetect ==
    /\ InitSession
    /\ text \in Texts
    /\ detect_result = "pending"

\* One call contains_crisis_keywords(text).
Detect ==
    /\ detect_result = "pending"
    /\ detect_result' = IF contains_crisis_keywords(text) THEN "true" ELSE "false"
    /\ UNCHANGED text
    /\ UNCHANGED session_vars

NextDetect == Detect

SpecDetect == InitDetect /\ [][NextDetect]_vars

---------------------------------------------------------------------------
(* Properties *)

LastMsg == messages[Len(messages)]

\* The user message of the turn that was just completed.
TurnUserMsg == messages[Len(messages) - 1]

\* C1: on a turn whose submitted text the crisis detector flags, the
\* provider is not called at any point of the run, and the assistant
\* message appended is the crisis template.
C1_CrisisNeverCallsProvider ==
    /\ (pc # "idle" /\ prompt # "" /\ contains_crisis_keywords(prompt))
          => provider_calls = 0
    /\ (last_op = "turn" /\ contains_crisis_keywords(TurnUserMsg.content))
          => /\ provider_calls = 0
             /\ LastMsg = Msg("assistant", handle_crisis_response(app_config))

\* A flagged turn completed on a conversation that already holds an
\* earlier turn.
C1_Witness ==
    /\ last_op = "turn"
    /\ last_turn = "crisis"
    /\ contains_crisis_keywords(TurnUserMsg.content)
    /\ Len(messages) >= 6

\* C2: once the session is initialised, element 0 of the conversation is
\* the system message that initialization created, with role system,
\* whatever turns and clears have happened.
C2_SystemMessageKept ==
    messages_set =>
        /\ Len(messages) >= 1
        /\ messages[1].role = "system"
        /\ messages[1] = init_system
        /\ init_system = Msg("system", system_prompt(app_config))

\* A turn completed after a clear, with the system message still in place.
C2_Witness ==
    /\ last_op = "turn"
    /\ Len(messages) >= 6
    /\ messages[2].content = cleared_greeting
    /\ messages[1] = init_system

\* C3: the message list passed to the provider contains the
\* conversation's system message, at any conversation length.
C3_WindowHasSystemMessage ==
    (pc = "append" /\ provider_calls > 0) =>
        \E i \in 1..Len(provider_window) : provider_window[i] = messages[1]

\* C4: the window passed to the provider is the suffix of the conversation
\* of length min(6, length), in order, each message unchanged, ending with
\* the user message just appended.
C4_WindowIsLastSix ==
    (pc = "append" /\ provider_calls > 0) =>
        LET n == Len(messages)
            w == provider_window
            k == IF n < 6 THEN n ELSE 6
        IN  /\ Len(w) = k
            /\ \A i \in 1..k : w[i] = messages[n - k + i]
            /\ w[k] = Msg("user", prompt)
            /\ messages[n] = Msg("user", prompt)

\* A provider call on a conversation of nine messages: six are passed.
C4_Witness ==
    /\ pc = "append"
    /\ provider_calls = 1
    /\ Len(messages) = 9
    /\ Len(provider_window) = 6

\* C5: the clear yields exactly two messages, the system message that was
\* element 0 before the clear and the fresh greeting.
C5_ClearYieldsTwo ==
    last_op = "clear" =>
        /\ Len(messages) = 2
        /\ messages[1] = before[1]
        /\ messages[1].role = "system"
        /\ messages[2] = Msg("assistant", cleared_greeting)

\* A clear of a conversation that held at least two turns.
C5_Witness ==
    /\ last_op = "clear"
    /\ Len(before) >= 6
    /\ Len(messages) = 2

\* C6: when the provider call raises, get_ai_response returns the fallback
\* marker followed by the diagnostic, that text is appended as the
\* assistant message, the run does not end in an exception and the chat
\* input is offered again.
C6_ProviderFailureRecovered ==
    /\ (pc = "append" /\ last_turn = "fallback")
          => /\ provider_error \in ProviderErrors
             /\ StrIn(FallbackMarker, ai_response)
             /\ StrIn(provider_error, ai_response)
             /\ ai_response = FallbackMarker \o provider_error
    /\ (last_op = "turn" /\ last_turn = "fallback")
          => /\ LastMsg = Msg("assistant", FallbackMarker \o provider_error)
             /\ run_status # "exception"
    /\ (pc = "idle" /\ last_turn = "fallback")
          => /\ run_status = "ok"
             /\ "chat_input" \in rendered
             /\ nturns < MaxTurns => ENABLED (\E p \in Prompts : SubmitPrompt(p))

\* A turn completed after an earlier turn of the session ended in the
\* fallback text.
C6_Witness ==
    /\ last_op = "turn"
    /\ \E i \in 1..(Len(messages) - 2) :
          /\ messages[i].role = "assistant"
          /\ StrIn(FallbackMarker, messages[i].content)

\* C7: contains_crisis_keywords is true exactly when one of the eight
\* phrases occurs in the text with the case of letters ignored, also
\* inside a longer word.
C7_DetectIffPhrase ==
    detect_result # "pending" =>
        LET phrases == { "kill myself", "suicide", "end it all",
                         "want to die", "harm myself", "self harm",
                         "hurt myself", "not want to live" }
            occurs == \E k \in phrases : \E a \in 0..Len(text) :
                         /\ a + Len(k) <= Len(text)
                         /\ Lower(SubSeq(text, a + 1, a + Len(k))) = k
        IN  /\ detect_result \in {"true", "false"}
            /\ (detect_result = "true") <=> occurs

\* A phrase in capitals inside a longer word is detected.
C7_Witness ==
    /\ detect_result = "true"
    /\ text = "xSUICIDES"

\* C8: the assistant message of a flagged turn contains the configured
\* crisis_hotline and crisis_text verbatim and is the template filled from
\* the configuration alone.
C8_CrisisReplyHasNumbers ==
    (last_op = "turn" /\ last_turn = "crisis") =>
        /\ LastMsg.role = "assistant"
        /\ StrIn(app_config.crisis_hotline, LastMsg.content)
        /\ StrIn(app_config.crisis_text, LastMsg.content)
        /\ LastMsg.content = handle_crisis_response(app_config)

\* A flagged turn under the second hotline, after turns answered by the
\* provider.
C8_Witness ==
    /\ last_op = "turn"
    /\ last_turn = "crisis"
    /\ app_config.crisis_hotline = "1-800-273-8255"
    /\ app_config.crisis_text = "Text HOME to 741741"
    /\ Len(messages) >= 6
    /\ \E i \in 1..Len(messages) : messages[i].content \in Replies

\* Roles of a well-formed conversation: system, then assistant and user in
\* turn, ending with assistant.
Shape(msgs) ==
    /\ Len(msgs) >= 2
    /\ Len(msgs) % 2 = 0
    /\ msgs[1].role = "system"
    /\ \A i \in 2..Len(msgs) :
          msgs[i].role = IF i % 2 = 0 THEN "assistant" ELSE "user"

\* C9: initialize creates [system, greeting] and leaves an existing
\* conversation as it is; between user actions the conversation has the
\* shape above; a completed turn adds a user and an assistant message.
C9_ConversationShape ==
    /\ (pc = "sidebar" /\ last_op = "init_created")
          => messages = << Msg("system", system_prompt(app_config)),
                           Msg("assistant", greeting(app_config)) >>
    /\ (pc = "sidebar" /\ last_op = "init_kept") => messages = before
    /\ (pc = "idle" /\ messages_set) => Shape(messages)
    /\ last_op = "turn"
          => /\ Len(messages) = Len(before) + 2
             /\ SubSeq(messages, 1, Len(before)) = before
             /\ TurnUserMsg.role = "user"
             /\ LastMsg.role = "assistant"

\* The session at rest after three turns.
C9_Witness ==
    /\ pc = "idle"
    /\ run_status = "ok"
    /\ Len(messages) = 8
    /\ Shape(messages)

\* C10: no run of the script is aborted before the clear button and the
\* chat input; a submitted text gets exactly one assistant message, with
\* at most one provider call.
C10_EveryRunCompletes ==
    /\ run_status # "exception"
    /\ last_op = "turn"
          => /\ provider_calls <= 1
             /\ Len(messages) = Len(before) + 2

===========================================================================
